---- MODULE Spec2Model ----
(***************************************************************************)
(* Model of html-to-md-using-bedrock.py: metadata extraction, the sliding  *)
(* window chunk loop of process_html_in_chunks, the conversion call with   *)
(* its failure collapse, and the aggregation of the recorded outputs.      *)
(*                                                                         *)
(* Text is a sequence of characters, so that strip, replace, startswith    *)
(* and "in" are computed character by character.  An ASCII character is a  *)
(* one-character string, any other character is the string "U+XXXX" of its *)
(* code point.  A token sequence is a sequence of integers.                *)
(***************************************************************************)
EXTENDS Integers, Sequences, FiniteSets, TLC

VARIABLES
    html_content,       \* the document handed to process_html_in_chunks
    max_chunk_size,     \* parameter
    overlap_tokens,     \* parameter
    with_metadata,      \* parameter
    pc,                 \* position of the run
    metadata,           \* dict built by extract_metadata (ordered key/value pairs)
    metadata_block,     \* YAML front matter text
    tokens,             \* tokenizer.encode(body_html)
    total_tokens,       \* len(tokens)
    start,              \* loop variable
    previous_markdown,  \* loop variable
    chunk_index,        \* loop variable
    markdown_chunks,    \* recorded outputs
    calls,              \* requests handed to convert_chunk_to_markdown, in order
    responses,          \* what the external service did for each request
    result,             \* <<>> until the function returns, then <<text, metadata>>
    raised              \* exception leaving process_html_in_chunks, or "none"

vars == <<html_content, max_chunk_size, overlap_tokens, with_metadata, pc,
          metadata, metadata_block, tokens, total_tokens, start,
          previous_markdown, chunk_index, markdown_chunks, calls, responses,
          result, raised>>

(***************************************************************************)
(* Bounds of the model.                                                    *)
(***************************************************************************)
MaxBodyTokens == 3      \* longest body token sequence
MaxChunk == 2           \* largest max_chunk_size
MaxOverlap == 3         \* largest overlap_tokens
MaxCalls == 4           \* cap on conversion calls of one run
MaxMetas == 2           \* most <meta> tags of a header (metadata specification)

MAX_TOKEN_LIMIT == 4096

Min(a, b) == IF a < b THEN a ELSE b
Max(a, b) == IF a > b THEN a ELSE b

(***************************************************************************)
(* Python string primitives.                                               *)
(***************************************************************************)
\* The characters str.strip() removes: those for which str.isspace() holds.
\* A character of the ASCII range is the one-character string holding it
\* (U+000B and U+001C..U+001F are written as the characters themselves).
\* A character outside the ASCII range is the string naming its code point,
\* "U+" and four hexadecimal digits, since the tools read a module as ASCII:
\* e-acute is "U+00E9", the no-break space of &nbsp; is "U+00A0".
Whitespace ==
    {" ", "\t", "\n", "\r", "\f",
     "", "", "", "", "",
     "U+0085", "U+00A0", "U+1680", "U+2000", "U+2001", "U+2002",
     "U+2003", "U+2004", "U+2005", "U+2006", "U+2007", "U+2008",
     "U+2009", "U+200A", "U+2028", "U+2029", "U+202F", "U+205F",
     "U+3000"}

RECURSIVE LStrip(_)
LStrip(s) == IF s = <<>> THEN s
             ELSE IF Head(s) \in Whitespace THEN LStrip(Tail(s)) ELSE s

RECURSIVE RStrip(_)
RStrip(s) == IF s = <<>> THEN s
             ELSE IF s[Len(s)] \in Whitespace
                  THEN RStrip(SubSeq(s, 1, Len(s) - 1)) ELSE s

\* str.strip()
Strip(s) == RStrip(LStrip(s))

\* str.startswith(p)
StartsWith(s, p) == Len(s) >= Len(p) /\ SubSeq(s, 1, Len(p)) = p

\* sub in s
Contains(s, sub) ==
    \E i \in 1..(Len(s) - Len(sub) + 1) : SubSeq(s, i, i + Len(sub) - 1) = sub

\* str.replace(old, ""): one left-to-right pass over non-overlapping matches
RECURSIVE Remove(_, _)
Remove(s, old) ==
    IF Len(s) < Len(old) THEN s
    ELSE IF SubSeq(s, 1, Len(old)) = old
         THEN Remove(SubSeq(s, Len(old) + 1, Len(s)), old)
         ELSE <<Head(s)>> \o Remove(Tail(s), old)

\* sep.join(parts)
RECURSIVE Join(_, _)
Join(parts, sep) ==
    IF parts = <<>> THEN <<>>
    ELSE IF Len(parts) = 1 THEN parts[1]
    ELSE parts[1] \o sep \o Join(Tail(parts), sep)

\* seq[lo:hi] with Python's treatment of negative and out-of-range indices
PySlice(s, lo, hi) ==
    LET n == Len(s)
        norm(x) == IF x < 0 THEN Max(x + n, 0) ELSE Min(x, n)
        l == norm(lo)
        h == norm(hi)
    IN  IF l >= h THEN <<>> ELSE SubSeq(s, l + 1, h)

END == <<"E", "N", "D">>
Delim == <<"-", "-", "-">>
NL == <<"\n">>
TitleKey == <<"t", "i", "t", "l", "e">>

(***************************************************************************)
(* extract_metadata.  A <meta> tag is its attribute dictionary: a function *)
(* from a subset of {"name", "content"} to text.  soup.title.string is a   *)
(* sequence holding no text (None) or one text.  The dict is the ordered   *)
(* sequence of its <<key, value>> pairs.                                   *)
(***************************************************************************)
\* tag.get(attr, default)
Get(tag, attr, default) == IF attr \in DOMAIN tag THEN tag[attr] ELSE default

\* metadata[k] = v, first writer wins (setdefault)
DictSetKeepFirst(d, k, v) ==
    IF \E i \in 1..Len(d) : d[i][1] = k THEN d ELSE Append(d, <<k, v>>)

\* metadata[k] = v
DictSet(d, k, v) ==
    IF \E i \in 1..Len(d) : d[i][1] = k
    THEN [i \in 1..Len(d) |-> IF d[i][1] = k THEN <<k, v>> ELSE d[i]]
    ELSE Append(d, <<k, v>>)

\* if soup.title and soup.title.string: metadata["title"] = ...strip()
TitleEntry(title) ==
    IF title # <<>> /\ title[1] # <<>>
    THEN DictSet(<<>>, TitleKey, Strip(title[1]))
    ELSE <<>>

\* body of the loop over soup.find_all("meta")
MetaEntry(d, meta) ==
    IF "name" \in DOMAIN meta /\ meta["name"] # <<>>
    THEN DictSet(d, Strip(meta["name"]), Strip(Get(meta, "content", <<>>)))
    ELSE d

RECURSIVE MetaLoop(_, _)
MetaLoop(d, metas) ==
    IF metas = <<>> THEN d
    ELSE MetaLoop(MetaEntry(d, Head(metas)), Tail(metas))

extract_metadata(html) == MetaLoop(TitleEntry(html.title), html.metas)

\* f'{key}: "{value}"'
MetadataLine(e) == e[1] \o <<":", " ", "\"">> \o e[2] \o <<"\"">>

\* "---\n" + "\n".join(metadata_lines) + "\n---\n\n"
RenderBlock(md) ==
    Delim \o NL
    \o Join([i \in 1..Len(md) |-> MetadataLine(md[i])], NL)
    \o NL \o Delim \o NL \o NL

\* metadata_block built without looking at with_metadata
MetadataBlockAnyFlag(flag, md) == IF md # <<>> THEN RenderBlock(md) ELSE <<>>

\* metadata_block as set up before the loop
MetadataBlock(flag, md) == IF flag /\ md # <<>> THEN RenderBlock(md) ELSE <<>>

(***************************************************************************)
(* Documents and parameters.  A document is what the parser and the        *)
(* tokenizer report about it: the title string, the <meta> tags, whether   *)
(* soup.body exists, the body's text, the tokens of str(soup.body) and the *)
(* token count of the whole document.                                      *)
(***************************************************************************)
TokenSeqs == UNION {[1..n -> 1..2] : n \in 1..MaxBodyTokens}

Heads ==
    { [title |-> <<>>, metas |-> <<>>],
      [title |-> << <<"T">> >>, metas |-> <<>>],
      [title |-> <<>>,
       metas |-> << [name |-> <<"k">>, content |-> <<"E", "N", "D">>] >>] }

BodyTexts == { <<>>, <<" ">>, <<"\f", "U+00A0">>, <<"a">> }

Docs ==
    { [title |-> h.title, metas |-> h.metas, has_body |-> FALSE,
       body_text |-> <<>>, body_tokens |-> <<>>, n_tokens |-> n] :
         h \in Heads, n \in {MAX_TOKEN_LIMIT, MAX_TOKEN_LIMIT + 1} }
    \cup
    { [title |-> h.title, metas |-> h.metas, has_body |-> TRUE,
       body_text |-> b, body_tokens |-> t, n_tokens |-> n] :
         h \in Heads, b \in BodyTexts, t \in TokenSeqs,
         n \in {MAX_TOKEN_LIMIT, MAX_TOKEN_LIMIT + 1} }

\* texts the external model may answer with, given the front matter it was shown
ModelOutputs(block) ==
    { <<>>, <<" ">>, <<"\f", "U+2003">>, <<"a", "\n">>, END, <<"E", "N", "E", "N", "D", "D">>,
      Delim \o <<"a">>, block \o <<"a">> }

(***************************************************************************)
(* process_html_in_chunks                                                  *)
(***************************************************************************)
\* not body_content or not body_content.get_text() without strip=True
IsEmptyDocumentNoStrip(html) == ~html.has_body \/ html.body_text = <<>>

\* not body_content or not body_content.get_text(strip=True)
IsEmptyDocument(html) == ~html.has_body \/ Strip(html.body_text) = <<>>

\* total_tokens > MAX_TOKEN_LIMIT
NeedsChunking(html) == html.n_tokens > MAX_TOKEN_LIMIT

\* end = min(start + max_chunk_size, total_tokens)
WindowEnd(s, size, total) == Min(s + size, total)

\* tokens[start - overlap_tokens:end] if start > 0 else tokens[start:end]
WindowSlice(toks, s, e, overlap) ==
    IF s > 0 THEN PySlice(toks, s - overlap, e) ELSE PySlice(toks, s, e)

\* start = 0: the loop starts over
NextStartReset(s, size) == 0

\* start left where it was: the same window again
NextStartStay(s, size) == s

\* start += max_chunk_size + 1
NextStartGap(s, size) == s + size + 1

\* start += max_chunk_size
NextStart(s, size) == s + size

\* the blank test left out
IsBlankNever(chunk) == FALSE

\* markdown_chunk.strip() == ""
IsBlank(chunk) == Strip(chunk) = <<>>

\* the sentinel test left out
HasSentinelNever(chunk) == FALSE

\* markdown_chunk == "END"
HasSentinelWhole(chunk) == chunk = END

\* "END" in markdown_chunk
HasSentinel(chunk) == Contains(chunk, END)

\* an except branch that returns the error text
FailureOutputText == <<"e">>

\* include_metadata = True for every chunk
IncludeMetadataAlways(idx) == TRUE

\* include_metadata = (chunk_index == 0)
IncludeMetadata(idx) == idx = 0

\* if previous_markdown: ... else: the prompt that asks for the front matter
UsesHeaderPrompt(prev) == prev = <<>>

\* what convert_chunk_to_markdown returns from its except branch
FailureOutput == <<>>

\* response_json["results"][0]["outputText"].strip()
SuccessOutput(text) == Strip(text)

\* "\n".join(markdown_chunks), .replace("END", "").strip()
JoinAndClean(chunks) == Strip(Remove(Join(chunks, NL), END))

\* the front matter prepended whatever the text starts with
AggregateAlwaysPrepend(chunks, flag, md, block) ==
    IF flag /\ md # <<>>
    THEN block \o Strip(Remove(Join(chunks, NL), END))
    ELSE Strip(Remove(Join(chunks, NL), END))

\* lines 199-205: the text process_html_in_chunks returns from the chunked branch
Aggregate(chunks, flag, md, block) ==
    LET aggregated_markdown == JoinAndClean(chunks)
    IN  IF flag /\ md # <<>> /\ ~StartsWith(aggregated_markdown, Delim)
        THEN block \o aggregated_markdown
        ELSE aggregated_markdown

Init ==
    /\ html_content \in Docs
    /\ max_chunk_size \in (0 - 1)..MaxChunk
    /\ overlap_tokens \in 0..MaxOverlap
    /\ with_metadata \in BOOLEAN
    /\ pc = "start"
    /\ metadata = <<>>
    /\ metadata_block = <<>>
    /\ tokens = <<>>
    /\ total_tokens = 0
    /\ start = 0
    /\ previous_markdown = <<>>
    /\ chunk_index = 0
    /\ markdown_chunks = <<>>
    /\ calls = <<>>
    /\ responses = <<>>
    /\ result = <<>>
    /\ raised = "none"

\* lines 142-146: the empty-content return
EmptyDocument ==
    /\ pc = "start"
    /\ IsEmptyDocument(html_content)
    /\ result' = << <<>>, <<>> >>
    /\ pc' = "done"
    /\ UNCHANGED <<html_content, max_chunk_size, overlap_tokens, with_metadata,
                   metadata, metadata_block, tokens, total_tokens, start,
                   previous_markdown, chunk_index, markdown_chunks, calls,
                   responses, raised>>

\* lines 208-211: convert_chunk_to_markdown (line 58) has no parameter named
\* with_metadata, so the call raises TypeError before the function body runs
SingleChunk ==
    /\ pc = "start"
    /\ ~IsEmptyDocument(html_content)
    /\ ~NeedsChunking(html_content)
    /\ raised' = "TypeError"
    /\ pc' = "done"
    /\ UNCHANGED <<html_content, max_chunk_size, overlap_tokens, with_metadata,
                   metadata, metadata_block, tokens, total_tokens, start,
                   previous_markdown, chunk_index, markdown_chunks, calls,
                   responses, result>>

\* lines 156-173: set-up of the chunked branch
BeginChunked ==
    /\ pc = "start"
    /\ ~IsEmptyDocument(html_content)
    /\ NeedsChunking(html_content)
    /\ metadata' = extract_metadata(html_content)
    /\ metadata_block' = MetadataBlock(with_metadata, metadata')
    /\ tokens' = html_content.body_tokens
    /\ total_tokens' = Len(tokens')
    /\ start' = 0
    /\ previous_markdown' = <<>>
    /\ chunk_index' = 0
    /\ markdown_chunks' = <<>>
    /\ pc' = "loop"
    /\ UNCHANGED <<html_content, max_chunk_size, overlap_tokens, with_metadata,
                   calls, responses, result, raised>>

\* lines 175-189 and 70-127: one window is cut and handed to the service
SubmitWindow ==
    /\ pc = "loop"
    /\ start < total_tokens
    /\ Len(calls) < MaxCalls
    /\ LET end == WindowEnd(start, max_chunk_size, total_tokens)
       IN  calls' = Append(calls,
             [index |-> chunk_index,
              start |-> start,
              end |-> end,
              chunk_tokens |-> WindowSlice(tokens, start, end, overlap_tokens),
              previous_markdown |-> previous_markdown,
              metadata_block |-> metadata_block,
              include_metadata |-> IncludeMetadata(chunk_index),
              header_prompt |-> UsesHeaderPrompt(previous_markdown)])
    /\ pc' = "call"
    /\ UNCHANGED <<html_content, max_chunk_size, overlap_tokens, with_metadata,
                   metadata, metadata_block, tokens, total_tokens, start,
                   previous_markdown, chunk_index, markdown_chunks, responses,
                   result, raised>>

\* lines 190-197: the rest of the loop body, given what the call returned
LoopBody(markdown_chunk) ==
    IF IsBlank(markdown_chunk)
    THEN /\ pc' = "break"
         /\ UNCHANGED <<markdown_chunks, previous_markdown, start, chunk_index>>
    ELSE /\ markdown_chunks' = Append(markdown_chunks, markdown_chunk)
         /\ previous_markdown' = markdown_chunk
         /\ IF HasSentinel(markdown_chunk)
            THEN /\ pc' = "break"
                 /\ UNCHANGED <<start, chunk_index>>
            ELSE /\ start' = NextStart(start, max_chunk_size)
                 /\ chunk_index' = chunk_index + 1
                 /\ pc' = "loop"

\* lines 128-130, 134: the service answers with a text
ReceiveOutput ==
    /\ pc = "call"
    /\ \E text \in ModelOutputs(metadata_block) :
         /\ responses' = Append(responses, [failed |-> FALSE, text |-> text])
         /\ LoopBody(SuccessOutput(text))
    /\ UNCHANGED <<html_content, max_chunk_size, overlap_tokens, with_metadata,
                   metadata, metadata_block, tokens, total_tokens, calls,
                   result, raised>>

\* lines 131-133: the call or the decoding of its response raises
ReceiveFailure ==
    /\ pc = "call"
    /\ responses' = Append(responses, [failed |-> TRUE, text |-> <<>>])
    /\ LoopBody(FailureOutput)
    /\ UNCHANGED <<html_content, max_chunk_size, overlap_tokens, with_metadata,
                   metadata, metadata_block, tokens, total_tokens, calls,
                   result, raised>>

\* lines 199-207: after the loop ends or breaks
AggregateAndReturn ==
    /\ \/ pc = "break"
       \/ pc = "loop" /\ ~(start < total_tokens)
    /\ result' = << Aggregate(markdown_chunks, with_metadata, metadata,
                              metadata_block), metadata >>
    /\ pc' = "done"
    /\ UNCHANGED <<html_content, max_chunk_size, overlap_tokens, with_metadata,
                   metadata, metadata_block, tokens, total_tokens, start,
                   previous_markdown, chunk_index, markdown_chunks, calls,
                   responses, raised>>

Next ==
    \/ EmptyDocument
    \/ SingleChunk
    \/ BeginChunked
    \/ SubmitWindow
    \/ ReceiveOutput
    \/ ReceiveFailure
    \/ AggregateAndReturn

Spec == Init /\ [][Next]_vars

\* Chunked runs with max_chunk_size >= 1, for the termination of the loop:
\* one header, and bodies of every length (the token values play no part).
\* The code between two calls runs to completion and the external call does
\* not hang: it returns a text or raises.
InitLoop ==
    /\ Init
    /\ html_content.has_body
    /\ html_content.body_text = <<"a">>
    /\ html_content.n_tokens = MAX_TOKEN_LIMIT + 1
    /\ html_content.title # <<>>
    /\ \A i \in 1..Len(html_content.body_tokens) :
          html_content.body_tokens[i] = 1
    /\ max_chunk_size >= 1

NextLoop ==
    \/ BeginChunked
    \/ SubmitWindow
    \/ ReceiveOutput
    \/ ReceiveFailure
    \/ AggregateAndReturn

FairSpec == InitLoop /\ [][NextLoop]_vars /\ WF_vars(NextLoop)

(***************************************************************************)
(* Specification of extract_metadata alone: the header is drawn from a     *)
(* larger set of titles and <meta> tags and the function is applied once.  *)
(***************************************************************************)
MetaNames == { <<>>, <<" ">>, <<"k">>, <<" ", "k">>, TitleKey }
MetaContents == { <<"v">>, <<"U+00E9", "U+00A0">> }

Tags ==
    { <<>> }
    \cup { [name |-> n] : n \in MetaNames }
    \cup { [content |-> c] : c \in MetaContents }
    \cup { [name |-> n, content |-> c] : n \in MetaNames, c \in MetaContents }

Titles == { <<>>, << <<"T">> >>, << <<" ">> >> }

MetaDocs ==
    { [title |-> t, metas |-> m, has_body |-> TRUE, body_text |-> <<"a">>,
       body_tokens |-> <<1>>, n_tokens |-> MAX_TOKEN_LIMIT + 1] :
         t \in Titles, m \in UNION {[1..n -> Tags] : n \in 0..MaxMetas} }

InitMeta ==
    /\ html_content \in MetaDocs
    /\ max_chunk_size = 1
    /\ overlap_tokens = 0
    /\ with_metadata = TRUE
    /\ pc = "extract"
    /\ metadata = <<>>
    /\ metadata_block = <<>>
    /\ tokens = <<>>
    /\ total_tokens = 0
    /\ start = 0
    /\ previous_markdown = <<>>
    /\ chunk_index = 0
    /\ markdown_chunks = <<>>
    /\ calls = <<>>
    /\ responses = <<>>
    /\ result = <<>>
    /\ raised = "none"

\* lines 35-43: one call of extract_metadata
ExtractMetadata ==
    /\ pc = "extract"
    /\ metadata' = extract_metadata(html_content)
    /\ pc' = "extracted"
    /\ UNCHANGED <<html_content, max_chunk_size, overlap_tokens, with_metadata,
                   metadata_block, tokens, total_tokens, start,
                   previous_markdown, chunk_index, markdown_chunks, calls,
                   responses, result, raised>>

NextMeta == ExtractMetadata

SpecMeta == InitMeta /\ [][NextMeta]_vars

(***************************************************************************)
(* Vocabulary of the properties.                                           *)
(***************************************************************************)
\* the run took the chunked branch
Chunked ==
    /\ html_content.has_body
    /\ \E i \in 1..Len(html_content.body_text) :
          html_content.body_text[i] \notin Whitespace
    /\ html_content.n_tokens > MAX_TOKEN_LIMIT

\* the document has no body, or a body of no text or of whitespace only
BlankDocument ==
    \/ ~html_content.has_body
    \/ \A i \in 1..Len(html_content.body_text) :
          html_content.body_text[i] \in Whitespace

\* the text the service returned for request i, as the loop received it
Received(i) == Strip(responses[i].text)

\* request i stopped the loop: it failed, came back blank, or held the sentinel
Halting(i) ==
    \/ responses[i].failed
    \/ Received(i) = <<>>
    \/ Contains(Received(i), END)

FirstN(s, n) == SubSeq(s, 1, Min(n, Len(s)))
LastN(s, n) == SubSeq(s, Len(s) - Min(n, Len(s)) + 1, Len(s))

\* number of non-overlapping occurrences of sub in s
RECURSIVE CountOf(_, _)
CountOf(s, sub) ==
    IF Len(s) < Len(sub) THEN 0
    ELSE IF SubSeq(s, 1, Len(sub)) = sub
         THEN 1 + CountOf(SubSeq(s, Len(sub) + 1, Len(s)), sub)
         ELSE CountOf(Tail(s), sub)

(***************************************************************************)
(* C1  Window coverage.  With max_chunk_size >= 1 the non-overlap ranges   *)
(* [start, end) of the submitted windows begin at 0, each begins where the *)
(* previous one ended, starts strictly increase, and when the loop ran to  *)
(* its end without a halting call the last range ends at total_tokens.     *)
(***************************************************************************)
WindowCoverage ==
    (max_chunk_size >= 1 /\ calls # <<>>) =>
        /\ calls[1].start = 0
        /\ \A i \in 1..Len(calls) :
              /\ calls[i].start < calls[i].end
              /\ calls[i].end <= total_tokens
        /\ \A i \in 2..Len(calls) :
              /\ calls[i].start = calls[i - 1].end
              /\ calls[i].start > calls[i - 1].start
        /\ (pc = "done" /\ \A i \in 1..Len(responses) : ~Halting(i)) =>
              calls[Len(calls)].end = total_tokens

WindowCoverageWitness ==
    /\ pc = "done"
    /\ max_chunk_size = 1
    /\ overlap_tokens = 1
    /\ Len(calls) = 3
    /\ \A i \in 1..Len(responses) : ~Halting(i)
    /\ calls[3].end = total_tokens

(***************************************************************************)
(* C2  Overlap correctness.  For every submitted window after the first,   *)
(* the first overlap_tokens tokens of its slice equal the last             *)
(* overlap_tokens tokens of the previous window's slice.                   *)
(***************************************************************************)
OverlapCorrectness ==
    \A i \in 2..Len(calls) :
        FirstN(calls[i].chunk_tokens, overlap_tokens)
            = LastN(calls[i - 1].chunk_tokens, overlap_tokens)

(***************************************************************************)
(* C3  Sentinel purity.  The text returned by a chunked run never contains *)
(* the substring END.                                                      *)
(***************************************************************************)
SentinelPurity ==
    (pc = "done" /\ Chunked) => ~Contains(result[1], END)

(***************************************************************************)
(* C4  Header singularity.  A chunked run with with_metadata, a non-empty  *)
(* metadata map and no failed call returns a text that starts with the     *)
(* header block of that map and holds no second delimiter pair after it.   *)
(***************************************************************************)
HeaderSingularity ==
    ( /\ pc = "done"
      /\ Chunked
      /\ with_metadata
      /\ result[2] # <<>>
      /\ \A i \in 1..Len(responses) : ~responses[i].failed )
    => /\ StartsWith(result[1], RenderBlock(result[2]))
       /\ CountOf(SubSeq(result[1], Len(RenderBlock(result[2])) + 1,
                         Len(result[1])), Delim) < 2

(***************************************************************************)
(* C5  Single-window equivalence.  A document with a non-empty body and at *)
(* most MAX_TOKEN_LIMIT tokens is converted by exactly one call, without   *)
(* previous output and with the header included, and the call's output is  *)
(* returned with the metadata map.                                         *)
(***************************************************************************)
SingleWindowEquivalence ==
    ( /\ pc = "done"
      /\ ~BlankDocument
      /\ html_content.n_tokens <= MAX_TOKEN_LIMIT )
    => /\ raised = "none"
       /\ Len(calls) = 1
       /\ calls[1].previous_markdown = <<>>
       /\ calls[1].include_metadata
       /\ result = << Received(1), extract_metadata(html_content) >>

(***************************************************************************)
(* C6  Configuration errors fail fast.  With overlap_tokens >=             *)
(* max_chunk_size or max_chunk_size <= 0 on a document that needs          *)
(* chunking, no conversion call is ever made.                              *)
(***************************************************************************)
ConfigFailFast ==
    (Chunked /\ (overlap_tokens >= max_chunk_size \/ max_chunk_size <= 0))
        => calls = <<>>

(***************************************************************************)
(* C7  Empty-document short-circuit.  A document without a body, or with a *)
(* body of no text or whitespace only, makes no conversion call and        *)
(* returns ("", {}), whatever its header holds.                            *)
(***************************************************************************)
EmptyShortCircuit ==
    BlankDocument =>
        /\ calls = <<>>
        /\ raised = "none"
        /\ pc = "done" => result = << <<>>, <<>> >>

EmptyShortCircuitWitness ==
    /\ pc = "done"
    /\ html_content.has_body
    /\ html_content.body_text = <<" ">>
    /\ html_content.metas # <<>>
    /\ html_content.n_tokens > MAX_TOKEN_LIMIT
    /\ result = << <<>>, <<>> >>

(***************************************************************************)
(* C8  External failure is terminal with a partial result.  When the call  *)
(* for window i fails, nothing is recorded for it, no later window is      *)
(* submitted, no exception leaves the function, and the outputs recorded   *)
(* for windows 0..i-1 are aggregated and returned.                         *)
(***************************************************************************)
FailureTerminal ==
    \A i \in 1..Len(responses) :
        responses[i].failed =>
            /\ Len(calls) = i
            /\ markdown_chunks = [j \in 1..(i - 1) |-> Received(j)]
            /\ raised = "none"
            /\ pc \in {"break", "done"}
            /\ pc = "done" =>
                 result = << Aggregate([j \in 1..(i - 1) |-> Received(j)],
                                       with_metadata, metadata, metadata_block),
                             metadata >>

FailureTerminalWitness ==
    /\ pc = "done"
    /\ Len(responses) = 2
    /\ responses[2].failed
    /\ Len(markdown_chunks) = 1
    /\ result[1] # <<>>

(***************************************************************************)
(* C9  Metadata extraction, as claimed: the non-title entries of the map   *)
(* are one key per name of a <meta> tag that has both a name and a content *)
(* attribute, with the content of the last such tag of that name; a tag    *)
(* lacking either attribute adds no entry.                                 *)
(***************************************************************************)
KeyOf(tag) == Strip(tag["name"])
ValueOf(tag) == IF "content" \in DOMAIN tag THEN Strip(tag["content"]) ELSE <<>>
LastOf(metas, S, k) ==
    CHOOSE i \in S :
        /\ KeyOf(metas[i]) = k
        /\ \A j \in S : KeyOf(metas[j]) = k => j <= i
ExpectedEntries(metas, S) ==
    { <<k, ValueOf(metas[LastOf(metas, S, k)])>> :
        k \in {KeyOf(metas[i]) : i \in S} \ {TitleKey} }
NonTitleEntries(md) == { md[i] : i \in {j \in 1..Len(md) : md[j][1] # TitleKey} }
KeysUnique(md) == \A i, j \in 1..Len(md) : md[i][1] = md[j][1] => i = j

WithNameAndContent(metas) ==
    { i \in 1..Len(metas) : {"name", "content"} \subseteq DOMAIN metas[i] }
WithName(metas) ==
    { i \in 1..Len(metas) :
        "name" \in DOMAIN metas[i] /\ Len(metas[i]["name"]) > 0 }

MetadataNameAndContent ==
    pc = "extracted" =>
        /\ KeysUnique(metadata)
        /\ NonTitleEntries(metadata)
             = ExpectedEntries(html_content.metas,
                               WithNameAndContent(html_content.metas))

(***************************************************************************)
(* C9 amended.  The non-title entries are one key per trimmed name of a    *)
(* <meta> tag whose name attribute is present and not empty, with the      *)
(* trimmed content of the last such tag of that trimmed name, or the empty *)
(* string when that tag has no content attribute; a tag without a name, or *)
(* with an empty name, adds no entry.                                      *)
(***************************************************************************)
MetadataByName ==
    pc = "extracted" =>
        /\ KeysUnique(metadata)
        /\ NonTitleEntries(metadata)
             = ExpectedEntries(html_content.metas, WithName(html_content.metas))

MetadataByNameWitness ==
    /\ pc = "extracted"
    /\ Len(html_content.metas) = 2
    /\ html_content.metas[1] = [name |-> <<"k">>, content |-> <<"v">>]
    /\ html_content.metas[2] = [name |-> <<" ", "k">>]
    /\ metadata = << << <<"k">>, <<>> >> >>

(***************************************************************************)
(* C10  Sentinel stop.  When the output of window i contains END, it is    *)
(* recorded, no later window is submitted, no window is requested twice,   *)
(* and the aggregation is over exactly the i+1 recorded outputs.           *)
(***************************************************************************)
SentinelStop ==
    \A i \in 1..Len(responses) :
        (~responses[i].failed /\ Contains(Received(i), END)) =>
            /\ Len(calls) = i
            /\ \A j \in 1..Len(calls) : calls[j].index = j - 1
            /\ markdown_chunks = [j \in 1..i |-> Received(j)]
            /\ pc \in {"break", "done"}
            /\ pc = "done" =>
                 result[1] = Aggregate([j \in 1..i |-> Received(j)],
                                       with_metadata, metadata, metadata_block)

SentinelStopWitness ==
    /\ pc = "done"
    /\ max_chunk_size = 1
    /\ total_tokens = 3
    /\ Len(calls) = 2
    /\ Contains(Received(2), END)
    /\ Len(markdown_chunks) = 2

(***************************************************************************)
(* C11  Starved stop.  When the call for window i succeeds with an empty   *)
(* or whitespace-only output, that output is not recorded, no later window *)
(* is submitted, and the result is built from the outputs of windows       *)
(* 0..i-1 only.                                                            *)
(***************************************************************************)
StarvedStop ==
    \A i \in 1..Len(responses) :
        ( /\ ~responses[i].failed
          /\ \A c \in 1..Len(responses[i].text) :
                responses[i].text[c] \in Whitespace )
        => /\ Len(calls) = i
           /\ Len(markdown_chunks) = i - 1
           /\ \A j \in 1..(i - 1) : markdown_chunks[j] = Received(j)
           /\ pc \in {"break", "done"}
           /\ pc = "done" =>
                result[1] = Aggregate([j \in 1..(i - 1) |-> Received(j)],
                                      with_metadata, metadata, metadata_block)

StarvedStopWitness ==
    /\ pc = "done"
    /\ max_chunk_size = 1
    /\ total_tokens = 3
    /\ Len(responses) = 2
    /\ ~responses[2].failed
    /\ responses[2].text = <<" ">>
    /\ Len(markdown_chunks) = 1

(***************************************************************************)
(* C12  Context threading.  At every conversion call the previous-output   *)
(* argument is empty for window 0 and is the recorded output of window i-1 *)
(* for window i > 0, include_metadata is true exactly for window 0, and    *)
(* the prompt that asks for the front matter is used for window 0 only.    *)
(***************************************************************************)
ContextThreading ==
    \A j \in 1..Len(calls) :
        /\ calls[j].index = j - 1
        /\ calls[j].previous_markdown = IF j = 1 THEN <<>> ELSE Received(j - 1)
        /\ j > 1 => markdown_chunks[j - 1] = calls[j].previous_markdown
        /\ calls[j].include_metadata <=> (j = 1)
        /\ calls[j].header_prompt <=> (j = 1)

ContextThreadingWitness ==
    /\ pc = "call"
    /\ Len(calls) = 3
    /\ calls[2].previous_markdown # calls[3].previous_markdown
    /\ calls[3].previous_markdown # <<>>

(***************************************************************************)
(* C13  Strictly sequential, no retry.  With max_chunk_size >= 1 the       *)
(* windows are submitted in index order 0, 1, 2, ... without a gap, each   *)
(* window once, window i+1 only after the response of window i has been    *)
(* received and recorded, and the recorded outputs are joined in that      *)
(* order.                                                                  *)
(***************************************************************************)
StrictlySequential ==
    max_chunk_size >= 1 =>
        /\ \A j \in 1..Len(calls) :
              /\ calls[j].index = j - 1
              /\ calls[j].start = (j - 1) * max_chunk_size
        /\ \A j, k \in 1..Len(calls) :
              calls[j].start = calls[k].start => j = k
        /\ Len(responses) = IF pc = "call" THEN Len(calls) - 1 ELSE Len(calls)
        /\ \A j \in 2..Len(calls) :
              /\ ~responses[j - 1].failed
              /\ markdown_chunks[j - 1] = Received(j - 1)
        /\ Len(markdown_chunks) <= Len(responses)
        /\ (pc = "done" /\ Chunked) =>
              /\ \A j \in 1..Len(markdown_chunks) :
                    markdown_chunks[j] = Received(j)
              /\ result[1] = Aggregate(markdown_chunks, with_metadata,
                                       metadata, metadata_block)

StrictlySequentialWitness ==
    /\ pc = "done"
    /\ max_chunk_size = 1
    /\ Len(calls) = 3
    /\ Len(markdown_chunks) = 3
    /\ markdown_chunks[1] # markdown_chunks[2]

(***************************************************************************)
(* C14  Aggregator header fallback.  With with_metadata and a non-empty    *)
(* metadata map, the returned text is the header block followed by the     *)
(* joined, sentinel-stripped, trimmed text when that text does not start   *)
(* with "---" (also when nothing was recorded), and is that text unchanged *)
(* when it does.                                                           *)
(***************************************************************************)
HeaderFallback ==
    (pc = "done" /\ Chunked /\ with_metadata /\ metadata # <<>>) =>
        LET text == Strip(Remove(Join(markdown_chunks, NL), END))
        IN  IF Len(text) >= 3 /\ SubSeq(text, 1, 3) = <<"-", "-", "-">>
            THEN result[1] = text
            ELSE result[1] = RenderBlock(metadata) \o text

HeaderFallbackWitness ==
    /\ pc = "done"
    /\ Chunked
    /\ with_metadata
    /\ metadata # <<>>
    /\ Len(responses) = 1
    /\ responses[1].failed
    /\ result[1] = RenderBlock(metadata)

HeaderFallbackKeptWitness ==
    /\ pc = "done"
    /\ Chunked
    /\ with_metadata
    /\ metadata # <<>>
    /\ markdown_chunks # <<>>
    /\ SubSeq(result[1], 1, 4) = <<"-", "-", "-", "a">>

(***************************************************************************)
(* C15  Termination.  With max_chunk_size >= 1, whatever the service       *)
(* answers, a chunked run makes at most ceil(total / max_chunk_size) calls *)
(* and eventually returns.                                                 *)
(***************************************************************************)
Termination ==
    <>( /\ pc = "done"
        /\ raised = "none"
        /\ Len(result) = 2
        /\ Len(calls) > 0 =>
              (Len(calls) - 1) * max_chunk_size < Len(html_content.body_tokens) )

TerminationWitness ==
    /\ pc = "done"
    /\ Chunked
    /\ max_chunk_size = 2
    /\ Len(html_content.body_tokens) = 3
    /\ Len(calls) = 2
    /\ Len(markdown_chunks) = 2

(***************************************************************************)
(* C16  Recorded-output invariant.  Every recorded output is non-empty     *)
(* after trimming, only the last recorded output may contain END, and the  *)
(* number of recorded outputs is the number of calls that returned a       *)
(* non-blank text, which is at most the number of calls made.              *)
(***************************************************************************)
NonBlankReturns ==
    { i \in 1..Len(responses) :
        /\ ~responses[i].failed
        /\ \E c \in 1..Len(responses[i].text) :
              responses[i].text[c] \notin Whitespace }

RecordedOutputs ==
    /\ \A j \in 1..Len(markdown_chunks) :
          /\ \E c \in 1..Len(markdown_chunks[j]) :
                markdown_chunks[j][c] \notin Whitespace
          /\ j < Len(markdown_chunks) => ~Contains(markdown_chunks[j], END)
    /\ Len(markdown_chunks) = Cardinality(NonBlankReturns)
    /\ Len(markdown_chunks) <= Len(calls)

RecordedOutputsWitness ==
    /\ pc = "done"
    /\ max_chunk_size = 1
    /\ total_tokens = 3
    /\ Len(calls) = 2
    /\ Len(markdown_chunks) = 2
    /\ Contains(markdown_chunks[2], END)
    /\ ~Contains(markdown_chunks[1], END)

(***************************************************************************)
(* C17  Include-metadata flag off.  In a chunked run with with_metadata    *)
(* false every call is handed an empty header block, no header is          *)
(* prepended, so the returned text is the trimmed, sentinel-stripped       *)
(* newline-join of the recorded outputs, and the returned map is the one   *)
(* extracted from the document.                                            *)
(***************************************************************************)
FlagOff ==
    (Chunked /\ ~with_metadata) =>
        /\ \A j \in 1..Len(calls) : calls[j].metadata_block = <<>>
        /\ pc = "done" =>
              /\ result[1] = Strip(Remove(Join(markdown_chunks, NL), END))
              /\ result[2] = extract_metadata(html_content)

FlagOffWitness ==
    /\ pc = "done"
    /\ Chunked
    /\ ~with_metadata
    /\ result[2] # <<>>
    /\ Len(calls) = 2
    /\ Len(markdown_chunks) = 2
    /\ ~StartsWith(result[1], Delim)

(***************************************************************************)
(* C18  Early stop is not observable.  When a chunked run ends because the *)
(* call for window i failed or because it returned whitespace only, the    *)
(* returned pair is the same function of the document, the parameters and  *)
(* the outputs of windows 0..i-1: two runs that differ only in which of    *)
(* the two happened at window i return identical pairs, and the pair has   *)
(* no third component.                                                     *)
(***************************************************************************)
StopReturn(i) ==
    LET block == IF with_metadata /\ extract_metadata(html_content) # <<>>
                 THEN RenderBlock(extract_metadata(html_content)) ELSE <<>>
        text == Strip(Remove(Join([j \in 1..(i - 1) |-> Strip(responses[j].text)],
                                  NL), END))
    IN  << IF block # <<>> /\ ~StartsWith(text, Delim)
           THEN block \o text ELSE text,
           extract_metadata(html_content) >>

EarlyStopNotObservable ==
    \A i \in 1..Len(responses) :
        ( /\ pc = "done"
          /\ \/ responses[i].failed
             \/ \A c \in 1..Len(responses[i].text) :
                   responses[i].text[c] \in Whitespace )
        => /\ i = Len(responses)
           /\ result = StopReturn(i)
           /\ Len(result) = 2

EarlyStopFailedWitness ==
    /\ pc = "done"
    /\ Len(responses) = 2
    /\ responses[2].failed
    /\ result[1] # <<>>
    /\ result[2] # <<>>

====
